---- MODULE Spec2Model ----
(***************************************************************************)
(* Model of augmentation/creator.py (class Creator): the construction of   *)
(* the augmentation matrix (create_matrix), the generation run (run), the  *)
(* file export (to_file / _save_to_file), the upload to the database       *)
(* (upload_to_DB, check_db) and plot_random; of                            *)
(* simulation/base_model/converters/text_parser.py (class TextParser); of  *)
(* network/optimization.py (Analysis._get_best_round); and of              *)
(* network/classifier.py (load_data_preprocess with its split,             *)
(* predict_classes, show_wrong_classification).                            *)
(*                                                                         *)
(* The augmentation matrix is a numpy float array.  Its entries are        *)
(* modelled as exact rationals [n |-> numerator, d |-> denominator] in     *)
(* lowest terms, so that the normalisation k/s of create_matrix is a real  *)
(* division and not the identity.  Rows and columns are 1-based here; the  *)
(* code's row i is row i+1 of the model, the code's column -3 is column    *)
(* no_of_linear_params + 1.                                                *)
(***************************************************************************)
EXTENDS Integers, Sequences, FiniteSets, TLC

VARIABLES
    no_of_simulations,    \* self.no_of_simulations (constructor argument)
    no_of_linear_params,  \* self.no_of_linear_params = len(input_labels)
    single,               \* the constructor's / create_matrix's `single`
    grids_match,          \* whether self.input_spectra share one x grid
    augmentation_matrix,  \* self.augmentation_matrix (sequence of rows)
    pc,                   \* position: "init","row","while","ready","run","failed"
    i,                    \* loop index of create_matrix / run (0-based)
    linear_params,        \* create_matrix's local linear_params
    dict_list,            \* run's local dict_list
    df,                   \* self.df
    reduced_df,           \* self.reduced_df
    attrs,                \* which of the attributes df / reduced_df exist
    last_call,            \* the call made last (running while pc is not "ready")
    error,                \* the exception that call raised ("none": none)
    summary,              \* <<n>>: that call printed 'Number of created spectra: n'
    message,              \* what that call printed about saving
    written,              \* the artifacts that call wrote
    failed_file,          \* <<f>>: that call's write of file f raised OSError
    drawn,                \* history: a random number has been drawn
    resampled,            \* history: the body of the while loop has run
    distortion_draws,     \* history: the distortion values drawn per row
    parser,               \* a TextParser and the locals of its methods
    upload,               \* the database and the locals of upload_to_DB
    x_grid,               \* the x grid of self.input_spectra, in thousandths
    plot,                 \* the locals of plot_random
    analysis,             \* an Analysis (optimization.py) and a call on it
    classifier            \* a Classifier (classifier.py) and a call on it

vars == <<no_of_simulations, no_of_linear_params, single, grids_match,
          augmentation_matrix, pc, i, linear_params, dict_list, df,
          reduced_df, attrs, last_call, error, summary, message, written,
          failed_file, drawn, resampled, distortion_draws, parser, upload,
          x_grid, plot, analysis, classifier>>

\* the variables of network/optimization.py and network/classifier.py
networkVars == <<analysis, classifier>>

----------------------------------------------------------------------------
(* Bounds of the model *)

\* largest number of simulations a Creator is constructed with
MaxSims == 2

\* largest number of input spectra (besides UnsatRefs)
MaxRefs == 3

\* largest number of lines of a file a TextParser reads
MaxPoints == 4

\* A number of input spectra for which 0.1 > 1/no_of_linear_params; a Creator
\* of that many is constructed with single = False only.
UnsatRefs == 11

SimCounts == -1 .. MaxSims

RefCounts == (0 .. MaxRefs) \cup {UnsatRefs}

\* Values of np.random.uniform(0.1, 1.0), in hundredths: 0.20 and 0.95.
UniformDraws == {20, 95}

\* Bounds of the three np.random.randint calls (high is exclusive).
FWHM_LOW == 145
FWHM_HIGH == 722
SHIFT_LOW == -8
SHIFT_HIGH == 9
SNR_LOW == 15
SNR_HIGH == 200

\* The <<fwhm, shift_x, signal_to_noise>> triples a row may draw: the lowest
\* value of each range, and the highest width and signal-to-noise with a
\* shift of 0.
DistortionDraws ==
    { <<FWHM_LOW, SHIFT_LOW, SNR_LOW>>,
      <<FWHM_HIGH - 1, 0, SNR_HIGH - 1>> }

----------------------------------------------------------------------------
(* Rational numbers *)

RECURSIVE GCD(_, _)
GCD(a, b) == IF b = 0 THEN a ELSE GCD(b, a % b)

Abs(a) == IF a < 0 THEN -a ELSE a

\* n/d in lowest terms, d > 0
Rat(n, d) ==
    LET g == GCD(Abs(n), d)
    IN  [n |-> n \div g, d |-> d \div g]

RatOfInt(v) == [n |-> v, d |-> 1]

RatGeq(a, b) == a.n * b.d >= b.n * a.d

RatAdd(a, b) == Rat(a.n * b.d + b.n * a.d, a.d * b.d)

RECURSIVE RatSum(_)
RatSum(s) == IF s = <<>> THEN RatOfInt(0)
             ELSE RatAdd(s[1], RatSum(Tail(s)))

RECURSIVE SumSeq(_)
SumSeq(s) == IF s = <<>> THEN 0 ELSE s[1] + SumSeq(Tail(s))

\* the 0.1 of `p >= 0.1` in create_matrix
WeightFloor == Rat(1, 10)

----------------------------------------------------------------------------
(* create_matrix: pure parts *)

\* np.zeros((no_of_simulations, no_of_params))
ZeroMatrix(n, p) == [r \in 1 .. n |-> [c \in 1 .. p |-> RatOfInt(0)]]

\* r = [np.random.uniform(0.1,1.0) for j in range(no_of_linear_params)]:
\* the rows of k draws in which at most one draw differs from the others
\* (every row of UniformDraws for k <= 3)
UniformRows(k) ==
    { [j \in 1 .. k |-> IF j = p THEN a ELSE b] :
         p \in 0 .. k, a \in UniformDraws, b \in UniformDraws }

\* a bug: the division by s forgotten (values kept as drawn, in hundredths)
NormaliseNoDivision(r) == [j \in 1 .. Len(r) |-> Rat(r[j], 100)]

\* s = sum(r); linear_params = [k/s for k in r]
Normalise(r) == [j \in 1 .. Len(r) |-> Rat(r[j], SumSeq(r))]

\* a bug: any() where all() is meant
AnyAboveFloor(lp) == \E j \in 1 .. Len(lp) : RatGeq(lp[j], WeightFloor)

\* all(p >= 0.1 for p in linear_params): the while loop runs while it is False
AllAboveFloor(lp) == \A j \in 1 .. Len(lp) : RatGeq(lp[j], WeightFloor)

\* augmentation_matrix[i, 0:no_of_linear_params] = linear_params
SetWeights(row, lp) ==
    [c \in 1 .. Len(row) |-> IF c <= Len(lp) THEN lp[c] ELSE row[c]]

\* a bug: [i,q:] = 0 where [i,q+1:] = 0 is meant, which zeroes the 1.0 too
SetOneHotZeroFromQ(row, q) ==
    LET one   == [row EXCEPT ![q + 1] = RatOfInt(1)]
        left  == [c \in 1 .. Len(row) |-> IF c < q + 1 THEN RatOfInt(0) ELSE one[c]]
        right == [c \in 1 .. Len(row) |-> IF c >= q + 1 THEN RatOfInt(0) ELSE left[c]]
    IN  right

\* augmentation_matrix[i,q] = 1.0; [i,:q] = 0; [i,q+1:] = 0   (q is 0-based)
SetOneHot(row, q) ==
    LET one   == [row EXCEPT ![q + 1] = RatOfInt(1)]
        left  == [c \in 1 .. Len(row) |-> IF c < q + 1 THEN RatOfInt(0) ELSE one[c]]
        right == [c \in 1 .. Len(row) |-> IF c > q + 1 THEN RatOfInt(0) ELSE left[c]]
    IN  right

\* augmentation_matrix[i,-3], [i,-2], [i,-1] = the three np.random.randint draws
SetDistortions(row, t) ==
    [c \in 1 .. Len(row) |->
        IF c = Len(row) - 2 THEN RatOfInt(t[1])
        ELSE IF c = Len(row) - 1 THEN RatOfInt(t[2])
        ELSE IF c = Len(row) THEN RatOfInt(t[3])
        ELSE row[c]]

\* one iteration of the for loop with single == False, after the while loop
CombinationRow(row, lp, t) == SetDistortions(SetWeights(row, lp), t)

\* a bug: the one-hot assignment (and its zeroing) placed after the draws
SingleRowZeroingLast(row, q, t) == SetOneHot(SetDistortions(row, t), q)

\* one iteration of the for loop with single == True
SingleRow(row, q, t) == SetDistortions(SetOneHot(row, q), t)

\* the weight columns 0 .. no_of_linear_params-1 of a row
Weights(row) == [c \in 1 .. Len(row) - 3 |-> row[c]]

\* the columns -3, -2, -1 of a row
Fwhm(row) == row[Len(row) - 2]
ShiftX(row) == row[Len(row) - 1]
Snr(row) == row[Len(row)]

----------------------------------------------------------------------------
(* Creator.__init__ and create_matrix *)

\* no TextParser has been constructed
NoParser == [pc |-> "none"]

\* upload_to_DB has not been called
NoUpload == [pc |-> "none"]

\* plot_random has not been called
NoPlot == [pc |-> "none"]

\* no Analysis and no Classifier has been constructed
NoNetwork == analysis = [pc |-> "none"] /\ classifier = [pc |-> "none"]

\* the x grids of the input spectra: one with a step of 0.05, one with a
\* step of 0.062 (x values of three decimals)
XGrids == { <<0, 50, 100>>, <<0, 62, 124>> }

\* the grid of the Creators whose x values are not looked at
DefaultGrid == <<0, 50, 100>>

Init ==
    /\ parser = NoParser
    /\ upload = NoUpload
    /\ plot = NoPlot
    /\ NoNetwork
    /\ x_grid = DefaultGrid
    /\ no_of_simulations \in SimCounts
    /\ no_of_linear_params \in RefCounts
    /\ single \in BOOLEAN
    /\ (no_of_linear_params = UnsatRefs => ~single)
    /\ grids_match \in BOOLEAN
    /\ augmentation_matrix = <<>>
    /\ pc = "init"
    /\ i = 0
    /\ linear_params = <<>>
    /\ dict_list = <<>>
    /\ df = <<>>
    /\ reduced_df = <<>>
    /\ attrs = {}
    /\ last_call = "none"
    /\ error = "none"
    /\ summary = <<>>
    /\ message = ""
    /\ written = {}
    /\ failed_file = <<>>
    /\ drawn = FALSE
    /\ resampled = FALSE
    /\ distortion_draws = <<>>

\* __init__ up to the call of create_matrix.  np.zeros raises ValueError for a
\* negative number of rows; a for loop over range(0) ends at once.
Construct ==
    /\ pc = "init"
    /\ last_call' = "__init__"
    /\ IF no_of_simulations < 0
       THEN /\ pc' = "failed"
            /\ error' = "ValueError"
            /\ UNCHANGED augmentation_matrix
       ELSE /\ augmentation_matrix' =
                  ZeroMatrix(no_of_simulations, no_of_linear_params + 3)
            /\ pc' = IF no_of_simulations = 0 THEN "ready" ELSE "row"
            /\ error' = "none"
    /\ UNCHANGED <<parser, upload, plot, networkVars, x_grid, failed_file,
                   no_of_simulations, no_of_linear_params, single, grids_match,
                   i, linear_params, dict_list, df, reduced_df, attrs, summary,
                   message, written, drawn, resampled, distortion_draws>>

\* single == False: the first draw of a row and its normalisation
DrawRow ==
    /\ pc = "row"
    /\ ~single
    /\ \E r \in UniformRows(no_of_linear_params) :
          linear_params' = Normalise(r)
    /\ drawn' = (drawn \/ no_of_linear_params > 0)
    /\ pc' = "while"
    /\ UNCHANGED <<parser, upload, plot, networkVars, x_grid, failed_file,
                   no_of_simulations, no_of_linear_params, single, grids_match,
                   augmentation_matrix, i, dict_list, df, reduced_df, attrs,
                   last_call, error, summary, message, written, resampled,
                   distortion_draws>>

\* the body of the while loop: sample the whole row again
Resample ==
    /\ pc = "while"
    /\ ~AllAboveFloor(linear_params)
    /\ \E r \in UniformRows(no_of_linear_params) :
          linear_params' = Normalise(r)
    /\ drawn' = TRUE
    /\ resampled' = TRUE
    /\ UNCHANGED <<parser, upload, plot, networkVars, x_grid, failed_file,
                   no_of_simulations, no_of_linear_params, single, grids_match,
                   augmentation_matrix, pc, i, dict_list, df, reduced_df, attrs,
                   last_call, error, summary, message, written,
                   distortion_draws>>

\* where the for loop of create_matrix goes after row i
AfterRow == IF i + 1 = no_of_simulations THEN "ready" ELSE "row"

\* the while loop ends: the weights and the three distortions of row i are
\* written.  linear_params is not read again before it is reassigned.
StoreRow ==
    /\ pc = "while"
    /\ AllAboveFloor(linear_params)
    /\ \E t \in DistortionDraws :
          /\ augmentation_matrix' =
                [augmentation_matrix EXCEPT
                    ![i + 1] = CombinationRow(@, linear_params, t)]
          /\ distortion_draws' = Append(distortion_draws, t)
    /\ drawn' = TRUE
    /\ linear_params' = <<>>
    /\ i' = i + 1
    /\ pc' = AfterRow
    /\ UNCHANGED <<parser, upload, plot, networkVars, x_grid, failed_file,
                   no_of_simulations, no_of_linear_params, single, grids_match,
                   dict_list, df, reduced_df, attrs, last_call, error, summary,
                   message, written, resampled>>

\* single == True: np.random.choice raises ValueError for an empty list
SingleRowStep ==
    /\ pc = "row"
    /\ single
    /\ IF no_of_linear_params = 0
       THEN /\ pc' = "failed"
            /\ error' = "ValueError"
            /\ UNCHANGED <<augmentation_matrix, distortion_draws, drawn, i>>
       ELSE /\ \E q \in 0 .. no_of_linear_params - 1 :
               \E t \in DistortionDraws :
                  /\ augmentation_matrix' =
                        [augmentation_matrix EXCEPT ![i + 1] = SingleRow(@, q, t)]
                  /\ distortion_draws' = Append(distortion_draws, t)
            /\ drawn' = TRUE
            /\ i' = i + 1
            /\ pc' = AfterRow
            /\ UNCHANGED error
    /\ UNCHANGED <<parser, upload, plot, networkVars, x_grid, failed_file,
                   no_of_simulations, no_of_linear_params, single, grids_match,
                   linear_params, dict_list, df, reduced_df, attrs, last_call,
                   summary, message, written, resampled>>

CreateMatrixStep == DrawRow \/ Resample \/ StoreRow \/ SingleRowStep

----------------------------------------------------------------------------
(* Simulation (simulation.py, not among the sources): the synthesis step as *)
(* the specification describes it                                           *)

\* combine_linear fails when the references do not share one grid
CombineLinearFails(gm) == ~gm

\* sim.output_spectrum after combine_linear(scaling_params) and
\* change_spectrum(fwhm, shift_x, signal_to_noise); the lineshape is the
\* uninterpreted result of synthesising with these parameters
OutputSpectrum(scaling_params, fwhm, shift_x, signal_to_noise) ==
    [label |-> scaling_params,
     shift_x |-> shift_x,
     scale_y |-> "scale_y",
     signal_to_noise |-> signal_to_noise,
     fwhm |-> fwhm,
     x |-> x_grid,
     lineshape |-> <<scaling_params, fwhm, shift_x, signal_to_noise>>]

----------------------------------------------------------------------------
(* Creator.run *)

\* a bug: the index 3 where -3 is meant, and so on
DisableColumnsFromLeft(m, broaden, x_shift, noise) ==
    [r \in 1 .. Len(m) |->
        [c \in 1 .. Len(m[r]) |->
            IF \/ (c = 3 /\ ~broaden)
               \/ (c = 2 /\ ~x_shift)
               \/ (c = 1 /\ ~noise)
            THEN RatOfInt(0)
            ELSE m[r][c]]]

\* a bug: the columns of broaden and noise taken for each other
DisableColumnsSwapped(m, broaden, x_shift, noise) ==
    [r \in 1 .. Len(m) |->
        [c \in 1 .. Len(m[r]) |->
            IF \/ (c = Len(m[r]) - 2 /\ ~noise)
               \/ (c = Len(m[r]) - 1 /\ ~x_shift)
               \/ (c = Len(m[r]) /\ ~broaden)
            THEN RatOfInt(0)
            ELSE m[r][c]]]

\* if broaden == False: augmentation_matrix[:,-3] = 0, and so on
DisableColumns(m, broaden, x_shift, noise) ==
    [r \in 1 .. Len(m) |->
        [c \in 1 .. Len(m[r]) |->
            IF \/ (c = Len(m[r]) - 2 /\ ~broaden)
               \/ (c = Len(m[r]) - 1 /\ ~x_shift)
               \/ (c = Len(m[r]) /\ ~noise)
            THEN RatOfInt(0)
            ELSE m[r][c]]]

\* d = {'label': ..., 'shift_x': ..., ... 'y': spectrum.lineshape}
DictFromOneSimulation(spectrum) ==
    [label |-> spectrum.label,
     shift_x |-> spectrum.shift_x,
     scale_y |-> spectrum.scale_y,
     noise |-> spectrum.signal_to_noise,
     FWHM |-> spectrum.fwhm,
     x |-> spectrum.x,
     y |-> spectrum.lineshape]

\* the body of run's for loop for one row, up to d
SimulateRow(row) ==
    DictFromOneSimulation(
        OutputSpectrum(Weights(row), Fwhm(row), ShiftX(row), Snr(row)))

\* a bug: dict_list.insert(0, d)
PrependRecord(list, d) == <<d>> \o list

\* dict_list.append(d)
AppendRecord(list, d) == Append(list, d)

\* a bug: the column 'noise' selected along with x, y and label
ReducedViewWithNoise(frame) ==
    [r \in 1 .. Len(frame) |->
        [x |-> frame[r].x, y |-> frame[r].y, label |-> frame[r].label,
         noise |-> frame[r].noise]]

\* self.df[['x', 'y','label']]
ReducedView(frame) ==
    [r \in 1 .. Len(frame) |->
        [x |-> frame[r].x, y |-> frame[r].y, label |-> frame[r].label]]

\* run up to its for loop: the disabled distortion columns are overwritten
RunStart(broaden, x_shift, noise) ==
    /\ pc = "ready"
    /\ augmentation_matrix' =
          DisableColumns(augmentation_matrix, broaden, x_shift, noise)
    /\ dict_list' = <<>>
    /\ i' = 0
    /\ pc' = "run"
    /\ last_call' = "run"
    /\ error' = "none"
    /\ summary' = <<>>
    /\ message' = ""
    /\ written' = {}
    /\ failed_file' = <<>>
    /\ UNCHANGED <<parser, upload, plot, networkVars, x_grid,
                   no_of_simulations, no_of_linear_params, single, grids_match,
                   linear_params, df, reduced_df, attrs, drawn, resampled,
                   distortion_draws>>

\* one iteration of run's for loop; nothing in run catches what
\* combine_linear raises
RunRow ==
    /\ pc = "run"
    /\ i < no_of_simulations
    /\ IF CombineLinearFails(grids_match)
       THEN /\ pc' = "ready"
            /\ error' = "GridMismatchError"
            /\ dict_list' = <<>>
            /\ i' = 0
       ELSE /\ dict_list' =
                  AppendRecord(dict_list, SimulateRow(augmentation_matrix[i + 1]))
            /\ i' = i + 1
            /\ UNCHANGED <<pc, error>>
    /\ UNCHANGED <<parser, upload, plot, networkVars, x_grid, failed_file,
                   no_of_simulations, no_of_linear_params, single, grids_match,
                   augmentation_matrix, linear_params, df, reduced_df, attrs,
                   last_call, summary, message, written, drawn, resampled,
                   distortion_draws>>

\* after the for loop: the data frames and the printed number.  A data frame
\* made of an empty list has no columns, so selecting x, y and label raises
\* KeyError.
RunFinish ==
    /\ pc = "run"
    /\ i = no_of_simulations
    /\ df' = dict_list
    /\ IF no_of_simulations = 0
       THEN /\ attrs' = attrs \cup {"df"}
            /\ error' = "KeyError"
            /\ UNCHANGED <<reduced_df, summary>>
       ELSE /\ attrs' = attrs \cup {"df", "reduced_df"}
            /\ reduced_df' = ReducedView(dict_list)
            /\ summary' = <<no_of_simulations>>
            /\ error' = "none"
    /\ pc' = "ready"
    /\ dict_list' = <<>>
    /\ i' = 0
    /\ UNCHANGED <<parser, upload, plot, networkVars, x_grid, failed_file,
                   no_of_simulations, no_of_linear_params, single, grids_match,
                   augmentation_matrix, linear_params, last_call, message,
                   written, drawn, resampled, distortion_draws>>

Run == (\E broaden, x_shift, noise \in BOOLEAN : RunStart(broaden, x_shift, noise))
          \/ RunRow \/ RunFinish

\* run is stopped from outside (KeyboardInterrupt) while its for loop has
\* rows left: dict_list is a local and is lost, self.df and self.reduced_df
\* are not assigned
RunInterrupt ==
    /\ pc = "run"
    /\ i < no_of_simulations
    /\ pc' = "ready"
    /\ error' = "KeyboardInterrupt"
    /\ dict_list' = <<>>
    /\ i' = 0
    /\ UNCHANGED <<parser, upload, plot, networkVars, x_grid, failed_file,
                   no_of_simulations, no_of_linear_params, single, grids_match,
                   augmentation_matrix, linear_params, df, reduced_df, attrs,
                   last_call, summary, message, written, drawn, resampled,
                   distortion_draws>>

----------------------------------------------------------------------------
(* Creator.to_file and _save_to_file *)

\* filetypes = ['excel', 'json', 'pickle']
filetypes == {"excel", "json", "pickle"}

\* the file types to_file is called with ('txt' is one its docstring offers)
FileTypeInputs == filetypes \cup {"txt"}

\* the artifacts one call of _save_to_file writes: none for another filetype
SaveToFile(data, filename, filetype) ==
    IF filetype = "excel" THEN {[file |-> <<filename, ".xlsx">>, data |-> data]}
    ELSE IF filetype = "json" THEN {[file |-> <<filename, ".json">>, data |-> data]}
    ELSE IF filetype = "pickle" THEN {[file |-> <<filename, ".pkl">>, data |-> data]}
    ELSE {}

\* the files 0 .. n-1 of a call with single == True, each with its record
SingleFiles(frame, filetype, n) ==
    UNION { SaveToFile(frame[j + 1], <<"name", j>>, filetype) : j \in 0 .. n - 1 }

\* The writes a call of to_file makes, of which the write numbered fail_at
\* (counted from 0; -1: none) raises OSError: what was written before it
\* stays, the error leaves to_file, no later write is made.
WriteOutcome(frame, filetype, single_file, fail_at) ==
    LET writes == IF filetype \notin filetypes THEN 0
                  ELSE IF single_file THEN no_of_simulations
                  ELSE 1
        fails  == 0 <= fail_at /\ fail_at < writes
    IN  [error   |-> IF fails THEN "OSError" ELSE "none",
         failed  |-> IF ~fails THEN <<>>
                     ELSE IF single_file THEN << <<"name", fail_at>> >>
                     ELSE << <<"name">> >>,
         written |-> IF single_file
                     THEN SingleFiles(frame, filetype,
                                      IF fails THEN fail_at ELSE no_of_simulations)
                     ELSE IF fails THEN {}
                     ELSE SaveToFile(frame, <<"name">>, filetype)]

\* to_file(name, filetype, how, single); the message is printed before
\* anything is written
ToFile(filetype, how, single_file, fail_at) ==
    /\ pc = "ready"
    /\ last_call' = "to_file"
    /\ message' = IF filetype \notin filetypes
                  THEN "Saving was not successful. Choose a valid filetype!"
                  ELSE "Data was saved."
    /\ LET attr == IF how = "full" THEN "df" ELSE "reduced_df"
           frame == IF how = "full" THEN df ELSE reduced_df
       IN  IF attr \notin attrs
           THEN /\ error' = "AttributeError"
                /\ written' = {}
                /\ failed_file' = <<>>
           ELSE LET out == WriteOutcome(frame, filetype, single_file, fail_at)
                IN  /\ error' = out.error
                    /\ written' = out.written
                    /\ failed_file' = out.failed
    /\ summary' = <<>>
    /\ UNCHANGED <<parser, upload, plot, networkVars, x_grid,
                   no_of_simulations, no_of_linear_params, single, grids_match,
                   augmentation_matrix, pc, i, linear_params, dict_list, df,
                   reduced_df, attrs, drawn, resampled, distortion_draws>>

Export == \E filetype \in FileTypeInputs : \E how \in {"full", "reduced"} :
             \E single_file \in BOOLEAN :
                \E fail_at \in -1 .. no_of_simulations - 1 :
                   ToFile(filetype, how, single_file, fail_at)

----------------------------------------------------------------------------
(* TextParser (simulation/base_model/converters/text_parser.py).  The x      *)
(* values of a file are whole numbers of thousandths (1.5 is 1500); the y    *)
(* values are rationals.                                                     *)

\* the variables of the Creator
creatorVars == <<no_of_simulations, no_of_linear_params, single, grids_match,
                 augmentation_matrix, pc, i, linear_params, dict_list, df,
                 reduced_df, attrs, last_call, error, summary, message,
                 written, failed_file, drawn, resampled, distortion_draws,
                 x_grid>>

\* no Creator is under construction: every variable of the Creator is as
\* before __init__, for no simulations and no references
NoCreator ==
    /\ x_grid = DefaultGrid
    /\ no_of_simulations = 0
    /\ no_of_linear_params = 0
    /\ single = FALSE
    /\ grids_match = TRUE
    /\ augmentation_matrix = <<>>
    /\ pc = "init"
    /\ i = 0
    /\ linear_params = <<>>
    /\ dict_list = <<>>
    /\ df = <<>>
    /\ reduced_df = <<>>
    /\ attrs = {}
    /\ last_call = "none"
    /\ error = "none"
    /\ summary = <<>>
    /\ message = ""
    /\ written = {}
    /\ failed_file = <<>>
    /\ drawn = FALSE
    /\ resampled = FALSE
    /\ distortion_draws = <<>>

\* the x values of the lines of a file, in thousandths
XValues == {0, 500, 504, 1000, 3000, 4000, 6500, 12000}

\* the y values of the lines of a file
YValues == {0, 12}

\* the values of the keyword argument n_headerlines
HeaderLineCounts == {0, 1}

\* the 10 of `diff < 10` in _interpolate, in thousandths
GAP_LIMIT == 10000

\* the least element of a non-empty set of numbers
Min(S) == CHOOSE m \in S : \A n \in S : m <= n

\* the elements of a set of numbers in increasing order
RECURSIVE Sorted(_)
Sorted(S) == IF S = {} THEN <<>> ELSE <<Min(S)>> \o Sorted(S \ {Min(S)})

\* the files read: up to MaxPoints lines 'x y' with increasing x
Files ==
    UNION { { [j \in 1 .. Cardinality(S) |-> <<Sorted(S)[j], ys[j]>>] :
                 ys \in [1 .. Cardinality(S) -> YValues] } :
            S \in { T \in SUBSET XValues : Cardinality(T) <= MaxPoints }
                     \cup { {0, 100, 400} } }

\* round(v, 2) and np.around(v, 2) of v thousandths: the nearest hundredth,
\* a half to the even one
Round2(v) ==
    LET a  == Abs(v)
        q  == a \div 10
        r  == a % 10
        up == IF r < 5 THEN q
              ELSE IF r > 5 THEN q + 1
              ELSE IF q % 2 = 0 THEN q ELSE q + 1
    IN  (IF v < 0 THEN -1 ELSE 1) * 10 * up

\* int(np.round(n / d)) for n >= 0, d > 0: a half goes to the even number
RoundDiv(n, d) ==
    LET q == n \div d
        r == n % d
    IN  IF 2 * r < d THEN q
        ELSE IF 2 * r > d THEN q + 1
        ELSE IF q % 2 = 0 THEN q ELSE q + 1

\* the pairs of diff and step, in thousandths, whose float quotient is just
\* below the whole number it stands for: 0.3 / 0.1 is 2.9999999999999996.
\* (Of the quotients the files above lead to, this is the only one.)
QuotientsBelow == { <<300, 100>> }

\* int(n / d) for n >= 0, d > 0, the quotient being the float one
IntDiv(n, d) == IF <<n, d>> \in QuotientsBelow THEN n \div d - 1 ELSE n \div d

\* x1 = np.roll(x, -1); diff = np.abs(np.subtract(x, x1))
RollDiff(x) ==
    [j \in 1 .. Len(x) |-> Abs(x[j] - x[IF j = Len(x) THEN 1 ELSE j + 1])]

\* diff[diff != 0]
NonZero(d) == { d[j] : j \in { n \in 1 .. Len(d) : d[n] # 0 } }

\* step = round(np.min(diff[diff != 0]), 2)
StepWidth(x) == Round2(Min(NonZero(RollDiff(x))))

\* (stop - start) / step > len(x); for the step 0.0 the quotient is inf
ExceedsSampleCount(x, step) == x[Len(x)] - x[1] > Len(x) * step

\* y[i] * (1 - k) + y[i + 1] * k with k = j / m
Interpolated(ya, yb, j, m) ==
    RatAdd(Rat(ya.n * (m - j), ya.d * m), Rat(yb.n * j, yb.d * m))

\* diff = np.abs(np.around(x[i + 1] - x[i], 2)) for the samples a and a + 1
PairDiff(x, a) == Abs(Round2(x[a + 1] - x[a]))

\* (diff > step) & (diff < 10)
FillsPair(x, step, a) == PairDiff(x, a) > step /\ PairDiff(x, a) < GAP_LIMIT

\* what one iteration of the for loop of _interpolate adds to new_x and
\* new_y for the samples a and b = a + 1 (1-based), for a step that is not 0
FillPair(x, y, step, a) ==
    LET diff  == PairDiff(x, a)
        count == RoundDiv(diff, step)
        m     == IntDiv(diff, step)
    IN  IF FillsPair(x, step, a)
        THEN [x |-> [j \in 1 .. count |-> x[a] + (j - 1) * step],
              y |-> [j \in 1 .. count |-> Interpolated(y[a], y[a + 1], j - 1, m)]]
        ELSE [x |-> <<x[a]>>, y |-> <<y[a]>>]

\* a bug: the list made anew of the one spectrum
BuildDictAnew(data_dict, spect) == <<spect>>

\* self.data_dict += [spect]
BuildDict(data_dict, spect) == Append(data_dict, spect)

\* TextParser(n_headerlines = h), about to parse a file of the lines f
\* (calls counts the calls of parse_file on the instance)
NewParser(h, f) ==
    [pc |-> "new", n_headerlines |-> h, file |-> f, data |-> <<>>,
     x |-> <<>>, y |-> <<>>, step |-> 0, i |-> 0, new_x |-> <<>>,
     new_y |-> <<>>, interpolated |-> FALSE, error |-> "none",
     data_dict |-> <<>>, calls |-> 1]

ParserInit ==
    /\ NoCreator
    /\ upload = NoUpload
    /\ plot = NoPlot
    /\ NoNetwork
    /\ parser \in { NewParser(h, f) : h \in HeaderLineCounts, f \in Files }

\* parse_file up to the if of _check_step_width.  Indexing the columns of an
\* array made of no line raises IndexError; np.min of an empty array raises
\* ValueError.
ParseFile ==
    /\ parser.pc = "new"
    /\ LET data == SubSeq(parser.file, parser.n_headerlines + 1, Len(parser.file))
           x    == [j \in 1 .. Len(data) |-> data[j][1]]
           y    == [j \in 1 .. Len(data) |-> RatOfInt(data[j][2])]
       IN  IF data = <<>>
           THEN parser' = [parser EXCEPT !.pc = "done", !.error = "IndexError"]
           ELSE IF NonZero(RollDiff(x)) = {}
           THEN parser' = [parser EXCEPT !.pc = "done", !.data = data,
                                         !.x = x, !.y = y,
                                         !.error = "ValueError"]
           ELSE IF ExceedsSampleCount(x, StepWidth(x))
           THEN parser' = [parser EXCEPT !.pc = "interpolate", !.data = data,
                                         !.x = x, !.y = y,
                                         !.step = StepWidth(x),
                                         !.interpolated = TRUE]
           ELSE parser' = [parser EXCEPT !.pc = "done", !.data = data,
                                         !.x = x, !.y = y,
                                         !.step = StepWidth(x),
                                         !.data_dict =
                                             BuildDict(@, [x |-> x, y0 |-> y])]
    /\ UNCHANGED <<creatorVars, upload, plot, networkVars>>

\* one iteration of the for loop of _interpolate.  A smallest step below
\* 0.005 rounds to the step 0.0: diff / step is then inf, and int(inf) raises
\* OverflowError.
InterpolatePair ==
    /\ parser.pc = "interpolate"
    /\ parser.i < Len(parser.x) - 1
    /\ IF parser.step = 0 /\ FillsPair(parser.x, parser.step, parser.i + 1)
       THEN parser' = [parser EXCEPT !.pc = "done", !.error = "OverflowError"]
       ELSE LET fill == FillPair(parser.x, parser.y, parser.step, parser.i + 1)
            IN  parser' = [parser EXCEPT !.new_x = @ \o fill.x,
                                         !.new_y = @ \o fill.y,
                                         !.i = @ + 1]
    /\ UNCHANGED <<creatorVars, upload, plot, networkVars>>

\* after the for loop: the last sample is appended; _build_dict stores the
\* spectrum
InterpolateFinish ==
    /\ parser.pc = "interpolate"
    /\ parser.i = Len(parser.x) - 1
    /\ LET x == Append(parser.new_x, parser.x[Len(parser.x)])
           y == Append(parser.new_y, parser.y[Len(parser.y)])
       IN  parser' = [parser EXCEPT !.pc = "done", !.new_x = x, !.new_y = y,
                                    !.data_dict =
                                        BuildDict(@, [x |-> x, y0 |-> y])]
    /\ UNCHANGED <<creatorVars, upload, plot, networkVars>>

ParserNext == ParseFile \/ InterpolatePair \/ InterpolateFinish

ParserSpec == ParserInit /\ [][ParserNext]_vars

\* the most calls of parse_file on one instance
MaxParses == 3

\* the files parsed one after the other: one without a line, one of a
\* regular grid and one of an irregular grid
ReparseFiles ==
    { <<>>,
      << <<0, 0>>, <<1000, 12>> >>,
      << <<0, 12>>, <<1000, 0>>, <<4000, 12>> >> }

ReparseInit ==
    /\ NoCreator
    /\ upload = NoUpload
    /\ plot = NoPlot
    /\ NoNetwork
    /\ parser \in { NewParser(h, f) : h \in HeaderLineCounts,
                                      f \in ReparseFiles }

\* parse_file called again on the instance, after it returned or raised:
\* _read_lines starts self.data anew, self.data_dict is the list it was
ParseAgain(f) ==
    /\ parser.pc = "done"
    /\ parser.calls < MaxParses
    /\ parser' = [NewParser(parser.n_headerlines, f) EXCEPT
                    !.data_dict = parser.data_dict,
                    !.calls = parser.calls + 1]
    /\ UNCHANGED <<creatorVars, upload, plot, networkVars>>

ReparseNext == ParserNext \/ \E f \in ReparseFiles : ParseAgain(f)

ReparseSpec == ReparseInit /\ [][ReparseNext]_vars

----------------------------------------------------------------------------
(* Creator.upload_to_DB.  The database is a function from the names of the   *)
(* collections that exist to their documents, in insertion order; the '_id'  *)
(* insert_one adds to a document is left out.                                *)

\* the names of collections: "a" and "b" may exist before a call
CollectionNames == {"a", "b", "c"}

\* a document some earlier program has stored
OldDocument == [label |-> "old"]

\* the databases upload_to_DB may find
InitialDatabases ==
    { [n \in E |-> <<OldDocument>>] : E \in SUBSET {"a", "b"} }

\* what the user types at a prompt
Answers == {"yes", "no", "maybe"}

\* the documents of a collection; a collection that does not exist has none
CollectionDocs(db, n) == IF n \in DOMAIN db THEN db[n] ELSE <<>>

\* a bug: the call of delete_many left out
DeleteNothing(db, n) == db

\* db[collection_name].delete_many({}): a collection that does not exist is
\* not created
DeleteMany(db, n) == IF n \in DOMAIN db THEN [db EXCEPT ![n] = <<>>] ELSE db

\* data = row.to_dict(); data['x'] = list(np.round(data['x'], decimals = 2));
\* data['y'] = list(data['y']), which keeps every value
Document(row) ==
    [row EXCEPT !.x = [j \in 1 .. Len(row.x) |-> Round2(row.x[j])]]

\* db[collection_name].insert_one(data): the collection is created if needed
InsertOne(db, n, doc) ==
    [m \in DOMAIN db \cup {n} |->
        IF m = n THEN Append(CollectionDocs(db, n), doc) ELSE db[m]]

\* for i in range(self.no_of_simulations), from i = r on: the rows of
\* self.df are inserted
RECURSIVE InsertRows(_, _, _, _, _)
InsertRows(db, n, frame, r, count) ==
    IF r >= count THEN db
    ELSE InsertRows(InsertOne(db, n, Document(frame[r + 1])), n, frame, r + 1, count)

\* check_db(collection_name): all_data, the documents in the order find()
\* gives them, each without its '_id' and with x and y made arrays
CheckDb(db, n) ==
    [r \in 1 .. Len(CollectionDocs(db, n)) |->
        [f \in DOMAIN CollectionDocs(db, n)[r] \ {"_id"} |->
            CollectionDocs(db, n)[r][f]]]

\* upload_to_DB has not been called yet; the database is db0
IdleUpload(db0) ==
    [pc |-> "idle", db |-> db0, collections |-> {}, collection_name |-> "",
     reduced |-> TRUE, write |-> TRUE, answer |-> "None",
     answer2 |-> "unbound", error |-> "none", before |-> db0,
     confirmed |-> {}, touched |-> {}]

\* upload_to_DB after its while loop: collection = db[collection_name];
\* if write: delete_many and one insert_one per row.  `touched` records the
\* collection on which delete_many and insert_one were called.
Finish(u, frame, count) ==
    IF u.write
    THEN [u EXCEPT !.pc = "done",
                   !.db = InsertRows(DeleteMany(u.db, u.collection_name),
                                     u.collection_name, frame, 0, count),
                   !.touched = {u.collection_name}]
    ELSE [u EXCEPT !.pc = "done"]

\* a bug: the new name used without going back to the test of the while loop
SkipOuterTest(u, frame, count) == Finish(u, frame, count)

\* the test of `while collection_name in collections`: either the overwrite
\* prompt (answer = None) or the end of the loop
OuterTest(u, frame, count) ==
    IF u.collection_name \in u.collections
    THEN [u EXCEPT !.pc = "ask", !.answer = "None"]
    ELSE Finish(u, frame, count)

\* upload_to_DB(collection_name, reduced) up to its first prompt: the data
\* frame is looked up (AttributeError before the first run), `collections`
\* is read once
UploadStart(name, reduced) ==
    /\ pc = "ready"
    /\ upload.pc \in {"idle", "done"}
    /\ LET fresh == IdleUpload(upload.db)
           attr  == IF reduced THEN "reduced_df" ELSE "df"
       IN  IF attr \notin attrs
           THEN upload' = [fresh EXCEPT !.pc = "done", !.error = "AttributeError",
                                        !.collection_name = name,
                                        !.reduced = reduced]
           ELSE upload' = OuterTest([fresh EXCEPT !.collection_name = name,
                                                  !.reduced = reduced,
                                                  !.collections = DOMAIN upload.db],
                                    df, no_of_simulations)
    /\ UNCHANGED <<creatorVars, parser, plot, networkVars>>

\* answer = input('Do you want to overwrite it? (yes/no)').  For another
\* answer the elif reads answer2, which is unbound unless an earlier pass of
\* the outer loop has set it: UnboundLocalError.
AnswerOverwrite(a) ==
    /\ upload.pc = "ask"
    /\ upload' =
          IF a = "yes"
          THEN Finish([upload EXCEPT !.answer = a, !.write = TRUE,
                                     !.confirmed = @ \cup {upload.collection_name}],
                      df, no_of_simulations)
          ELSE IF a = "no"
          THEN [upload EXCEPT !.answer = a, !.write = FALSE,
                              !.answer2 = "None", !.pc = "ask2"]
          ELSE IF upload.answer2 = "unbound"
          THEN [upload EXCEPT !.answer = a, !.pc = "done",
                              !.error = "UnboundLocalError"]
          ELSE IF upload.answer2 = "no"
          THEN [upload EXCEPT !.answer = a, !.write = FALSE]
          ELSE [upload EXCEPT !.answer = a]
    /\ UNCHANGED <<creatorVars, parser, plot, networkVars>>

\* answer2 = input('Do you want to create a new collection? (yes/no)')
AnswerNewCollection(a) ==
    /\ upload.pc = "ask2"
    /\ upload' =
          IF a = "yes"
          THEN [upload EXCEPT !.answer2 = a, !.write = TRUE, !.pc = "name"]
          ELSE IF a = "no"
          THEN Finish([upload EXCEPT !.answer2 = a, !.write = FALSE],
                      df, no_of_simulations)
          ELSE [upload EXCEPT !.answer2 = a]
    /\ UNCHANGED <<creatorVars, parser, plot, networkVars>>

\* collection_name = input('Please enter a new collection name.'); both
\* inner loops end, neither break is taken, the outer test is made again
EnterNewName(n) ==
    /\ upload.pc = "name"
    /\ upload' = OuterTest([upload EXCEPT !.collection_name = n],
                           df, no_of_simulations)
    /\ UNCHANGED <<creatorVars, parser, plot, networkVars>>

Upload ==
    \/ \E name \in CollectionNames : \E reduced \in BOOLEAN :
          UploadStart(name, reduced)
    \/ \E a \in Answers : AnswerOverwrite(a)
    \/ \E a \in Answers : AnswerNewCollection(a)
    \/ \E n \in CollectionNames : EnterNewName(n)

----------------------------------------------------------------------------
(* Creator.plot_random *)

\* the values of the argument no_of_spectra
PlotCounts == 0 .. MaxSims + 1

\* a bug: the comparison with no_of_simulations left out
NoClamp(n, count) == n

\* if no_of_spectra > self.no_of_simulations:
\*     no_of_spectra = self.no_of_simulations
ClampCount(n, count) == IF n > count THEN count ELSE n

\* the elements of a sequence
Range(seq) == { seq[j] : j \in 1 .. Len(seq) }

\* plot_random(no_of_spectra) up to its for loop
PlotStart(n) ==
    /\ pc = "ready"
    /\ plot.pc \in {"none", "done"}
    /\ plot' = [pc |-> "for", requested |-> n,
                no_of_spectra |-> ClampCount(n, no_of_simulations),
                random_numbers |-> <<>>, i |-> 0, r |-> -1,
                plotted |-> <<>>, redrawn |-> FALSE, error |-> "none"]
    /\ UNCHANGED <<creatorVars, parser, upload, networkVars>>

\* the for loop has an iteration left: r = np.random.randint(0, n)
PlotDraw ==
    /\ plot.pc = "for"
    /\ plot.i < plot.no_of_spectra
    /\ \E r \in 0 .. no_of_simulations - 1 :
          plot' = [plot EXCEPT !.r = r, !.pc = "while"]
    /\ UNCHANGED <<creatorVars, parser, upload, networkVars>>

\* while r in random_numbers: r = np.random.randint(0, n)
PlotRedraw ==
    /\ plot.pc = "while"
    /\ plot.r \in Range(plot.random_numbers)
    /\ \E r \in 0 .. no_of_simulations - 1 :
          plot' = [plot EXCEPT !.r = r, !.redrawn = TRUE]
    /\ UNCHANGED <<creatorVars, parser, upload, networkVars>>

\* the rest of the iteration: r is appended and the figure of self.df.iloc[r]
\* is made (AttributeError before the first run)
PlotFigure ==
    /\ plot.pc = "while"
    /\ plot.r \notin Range(plot.random_numbers)
    /\ IF "df" \notin attrs
       THEN plot' = [plot EXCEPT !.random_numbers = Append(@, plot.r),
                                 !.pc = "done", !.error = "AttributeError"]
       ELSE plot' = [plot EXCEPT !.random_numbers = Append(@, plot.r),
                                 !.plotted = Append(@, plot.r),
                                 !.i = @ + 1, !.pc = "for"]
    /\ UNCHANGED <<creatorVars, parser, upload, networkVars>>

\* the for loop has no iteration left
PlotReturn ==
    /\ plot.pc = "for"
    /\ plot.i >= plot.no_of_spectra
    /\ plot' = [plot EXCEPT !.pc = "done"]
    /\ UNCHANGED <<creatorVars, parser, upload, networkVars>>

\* the steps plot_random takes by itself
PlotStep == PlotDraw \/ PlotRedraw \/ PlotFigure \/ PlotReturn

----------------------------------------------------------------------------

\* construction and any sequence of runs
Next == Construct \/ CreateMatrixStep \/ Run

Spec == Init /\ [][Next]_vars

\* the constructor alone
ConstructNext == Construct \/ CreateMatrixStep

\* The constructor runs without a caller's help: as long as it has a step to
\* take, it takes one.  Nothing is assumed about which values are drawn.
FairSpec ==
    /\ Init
    /\ [][ConstructNext]_vars
    /\ WF_vars(ConstructNext)

\* run() with its default arguments
DefaultRun == RunStart(TRUE, TRUE, TRUE) \/ RunRow \/ RunFinish

\* construction, default runs and exports
ExportNext == Construct \/ CreateMatrixStep \/ DefaultRun \/ Export

ExportSpec == Init /\ [][ExportNext]_vars

\* construction and any sequence of runs, each of which may be stopped
InterruptNext == Construct \/ CreateMatrixStep \/ Run \/ RunInterrupt

InterruptSpec == Init /\ [][InterruptNext]_vars

\* A Creator of one reference in single mode (upload_to_DB reads self.df and
\* no_of_simulations only) and a database
UploadInit ==
    /\ parser = NoParser
    /\ plot = NoPlot
    /\ NoNetwork
    /\ x_grid \in XGrids
    /\ upload \in { IdleUpload(db0) : db0 \in InitialDatabases }
    /\ no_of_simulations \in SimCounts
    /\ no_of_linear_params = 1
    /\ single = TRUE
    /\ grids_match = TRUE
    /\ augmentation_matrix = <<>>
    /\ pc = "init"
    /\ i = 0
    /\ linear_params = <<>>
    /\ dict_list = <<>>
    /\ df = <<>>
    /\ reduced_df = <<>>
    /\ attrs = {}
    /\ last_call = "none"
    /\ error = "none"
    /\ summary = <<>>
    /\ message = ""
    /\ written = {}
    /\ failed_file = <<>>
    /\ drawn = FALSE
    /\ resampled = FALSE
    /\ distortion_draws = <<>>

\* no call of upload_to_DB is waiting at a prompt
NotUploading == upload.pc \in {"idle", "done"}

\* construction, default runs and uploads; while upload_to_DB waits for an
\* answer the caller makes no other call
UploadNext ==
    \/ (NotUploading /\ Construct)
    \/ (NotUploading /\ SingleRowStep)
    \/ (NotUploading /\ DefaultRun)
    \/ Upload

UploadSpec == UploadInit /\ [][UploadNext]_vars

----------------------------------------------------------------------------
(* network/optimization.py: Analysis *)

\* the most rounds a results frame has
MaxRounds == 3

\* the values of a metric, in hundredths
MetricValues == {20, 50, 90}

\* the column of one metric of a results frame, one value per round
MetricColumns == UNION { [1 .. n -> MetricValues] : n \in 0 .. MaxRounds }

\* the Creator, the parser and the classifier are not involved
AnalysisInit ==
    /\ NoCreator
    /\ parser = NoParser
    /\ upload = NoUpload
    /\ plot = NoPlot
    /\ classifier = [pc |-> "none"]
    /\ \E column \in MetricColumns :
          analysis = [pc |-> "ready", df |-> column, low |-> TRUE,
                      result |-> -1, error |-> "none"]

\* self.df[metric].min()
ColumnMin(column) == Min(Range(column))

\* the greatest value of a non-empty column
ColumnMax(column) ==
    CHOOSE m \in Range(column) : \A n \in Range(column) : n <= m

\* self.df[self.df[metric] == value].index[0], the index being 0, 1, ...
FirstIndex(column, value) ==
    Min({ j \in 1 .. Len(column) : column[j] = value }) - 1

\* _get_best_round(metric, low): low is not read (IndexError on a frame
\* without rounds, whose filtered index is empty)
GetBestRound(low) ==
    /\ analysis.pc \in {"ready", "done"}
    /\ IF Len(analysis.df) = 0
       THEN analysis' = [analysis EXCEPT !.pc = "done", !.low = low,
                                         !.result = -1,
                                         !.error = "IndexError"]
       ELSE analysis' = [analysis EXCEPT
                           !.pc = "done", !.low = low, !.error = "none",
                           !.result = FirstIndex(analysis.df,
                                                 ColumnMin(analysis.df))]
    /\ UNCHANGED <<creatorVars, parser, upload, plot, classifier>>

AnalysisNext == \E low \in BOOLEAN : GetBestRound(low)

AnalysisSpec == AnalysisInit /\ [][AnalysisNext]_vars

----------------------------------------------------------------------------
(* network/classifier.py: Classifier, ClassifierSingle *)

\* the most samples load_data_preprocess loads
MaxSamples == 3

\* train_test_split and train_val_split, in quarters
Splits == 0 .. 4

\* the rows of y: one-hot labels of two classes
LabelRows == { <<1, 0>>, <<0, 1>> }

\* the rows the model predicts: class scores in quarters
PredictionRows == { <<3, 1>>, <<1, 3>>, <<2, 2>> }

\* int((1 - split) * n) for a split of so many quarters
IntOfShare(split, n) == ((4 - split) * n) \div 4

\* where a slice bound k falls in a sequence of n elements
SliceBound(k, n) ==
    IF k < 0 THEN (IF n + k < 0 THEN 0 ELSE n + k)
    ELSE IF k > n THEN n ELSE k

\* a[:k]
SliceTo(a, k) == SubSeq(a, 1, SliceBound(k, Len(a)))

\* a bug: a[k+1:], one sample lost at the cut
SliceFromNext(a, k) == SubSeq(a, SliceBound(k + 1, Len(a)) + 1, Len(a))

\* a[k:]
SliceFrom(a, k) == SubSeq(a, SliceBound(k, Len(a)) + 1, Len(a))

\* _split_test_val_train(X, y) with the two splits of the instance
SplitTestValTrain(X, y, train_test_split, train_val_split) ==
    LET no_of_train_val == IntOfShare(train_test_split, Len(X))
        X_train_val == SliceTo(X, no_of_train_val)
        y_train_val == SliceTo(y, no_of_train_val)
        no_of_train == IntOfShare(train_val_split, Len(X_train_val))
    IN  [X_train |-> SliceTo(X_train_val, no_of_train),
         X_val |-> SliceFrom(X_train_val, no_of_train),
         X_test |-> SliceFrom(X, no_of_train_val),
         y_train |-> SliceTo(y_train_val, no_of_train),
         y_val |-> SliceFrom(y_train_val, no_of_train),
         y_test |-> SliceFrom(y, no_of_train_val)]

\* np.argmax of a row: the first position of its greatest entry, from 0
ArgMax(row) ==
    Min({ j \in 1 .. Len(row) : \A k \in 1 .. Len(row) : row[k] <= row[j] })
      - 1

\* the Creator, the parser and the analysis are not involved
ClassifierInit ==
    /\ NoCreator
    /\ parser = NoParser
    /\ upload = NoUpload
    /\ plot = NoPlot
    /\ NoNetwork

\* load_data_preprocess, called once on a new classifier: the no_of_examples
\* samples read and shuffled (the spectra stand as 1, 2, ... in the shuffled
\* order), then the split
LoadDataPreprocess(no_of_examples, train_test_split, train_val_split) ==
    /\ classifier.pc = "none"
    /\ \E y \in [1 .. no_of_examples -> LabelRows] :
          LET X == [j \in 1 .. no_of_examples |-> j]
              parts == SplitTestValTrain(X, y, train_test_split,
                                         train_val_split)
          IN  classifier' =
                [pc |-> "loaded", X |-> X, y |-> y,
                 train_test_split |-> train_test_split,
                 train_val_split |-> train_val_split,
                 X_train |-> parts.X_train, X_val |-> parts.X_val,
                 X_test |-> parts.X_test, y_train |-> parts.y_train,
                 y_val |-> parts.y_val, y_test |-> parts.y_test,
                 pred_test |-> <<>>, no_of_wrong_pred |-> -1,
                 plotted |-> <<>>, error |-> "none"]
    /\ UNCHANGED <<creatorVars, parser, upload, plot, analysis>>

\* predict_classes: one row of scores for each test sample, whatever the
\* model gives
PredictClasses ==
    /\ classifier.pc = "loaded"
    /\ \E pred \in [1 .. Len(classifier.X_test) -> PredictionRows] :
          classifier' = [classifier EXCEPT !.pc = "predicted",
                                           !.pred_test = pred]
    /\ UNCHANGED <<creatorVars, parser, upload, plot, analysis>>

\* show_wrong_classification: the comparison stands after the loop, so it is
\* made once, with the values the last pass left (none without a pass:
\* UnboundLocalError); one wrong prediction makes one row of axes, a
\* one-dimensional array that axs[row, col] cannot index (IndexError)
ShowWrongClassification ==
    /\ classifier.pc = "predicted"
    /\ LET n == Len(classifier.pred_test)
       IN  IF n = 0
           THEN classifier' = [classifier EXCEPT
                                 !.pc = "shown",
                                 !.error = "UnboundLocalError"]
           ELSE IF ArgMax(classifier.y_test[n])
                     # ArgMax(classifier.pred_test[n])
           THEN classifier' = [classifier EXCEPT
                                 !.pc = "shown", !.no_of_wrong_pred = 1,
                                 !.error = "IndexError"]
           ELSE classifier' = [classifier EXCEPT
                                 !.pc = "shown", !.no_of_wrong_pred = 0]
    /\ UNCHANGED <<creatorVars, parser, upload, plot, analysis>>

ClassifierNext ==
    \/ \E n \in 0 .. MaxSamples, s, t \in Splits :
          LoadDataPreprocess(n, s, t)
    \/ PredictClasses
    \/ ShowWrongClassification

ClassifierSpec == ClassifierInit /\ [][ClassifierNext]_vars

\* a Creator of one reference in single mode (plot_random reads self.df and
\* no_of_simulations only)
PlotInit ==
    /\ Init
    /\ no_of_linear_params = 1
    /\ single = TRUE
    /\ grids_match = TRUE

\* no call of plot_random is under way
NotPlotting == plot.pc \in {"none", "done"}

\* construction, default runs and calls of plot_random
PlotNext ==
    \/ (NotPlotting /\ Construct)
    \/ (NotPlotting /\ SingleRowStep)
    \/ (NotPlotting /\ DefaultRun)
    \/ (\E n \in PlotCounts : PlotStart(n))
    \/ PlotStep

\* plot_random goes on while it has a step to take, and of the draws of the
\* redraw loop, made again and again, one is an index not yet used whenever
\* there is one
PlotSpec ==
    /\ PlotInit
    /\ [][PlotNext]_vars
    /\ WF_vars(PlotStep)
    /\ SF_vars(PlotRedraw /\ plot'.r \notin Range(plot.random_numbers))

----------------------------------------------------------------------------
(* Properties *)

\* the number of rows create_matrix has written so far
StoredRows ==
    IF pc \in {"init", "failed"} THEN 0
    ELSE IF pc \in {"row", "while"} THEN i
    ELSE no_of_simulations

\* no call of run has started yet
BeforeFirstRun == last_call \in {"none", "__init__"}

\* the constructor has returned normally
Constructed == pc \in {"ready", "run"}

\* C1: in combination mode, with at least one reference, every row that
\* create_matrix has stored has weights that are all non-negative, all at
\* least 0.1, and sum to 1 (a draw with a weight below 0.1 is not stored).
C1_WeightFloorAndSum ==
    (~single /\ no_of_linear_params >= 1) =>
        \A r \in 1 .. StoredRows :
            LET w == Weights(augmentation_matrix[r])
            IN  /\ \A c \in 1 .. Len(w) : RatGeq(w[c], RatOfInt(0))
                /\ \A c \in 1 .. Len(w) : RatGeq(w[c], WeightFloor)
                /\ RatSum(w) = RatOfInt(1)

\* C1 witness: a combination-mode matrix of two rows is complete, a row was
\* redrawn on the way, and a stored row has unequal weights.
C1_Witness ==
    /\ ~single
    /\ pc = "ready"
    /\ resampled
    /\ no_of_simulations = 2
    /\ no_of_linear_params = 3
    /\ \E r \in 1 .. 2 :
          augmentation_matrix[r][1] # augmentation_matrix[r][2]

\* C2: in single mode every stored row has exactly one weight equal to 1 and
\* all other weights equal to 0.
C2_OneHot ==
    single =>
        \A r \in 1 .. StoredRows :
            LET w == Weights(augmentation_matrix[r])
            IN  \E q \in 1 .. Len(w) :
                   /\ w[q] = RatOfInt(1)
                   /\ \A c \in 1 .. Len(w) : c # q => w[c] = RatOfInt(0)

\* C2 witness: a single-mode matrix whose first row chose the first index
\* (q = 0) and whose second row chose the last index (q = k-1).
C2_Witness ==
    /\ single
    /\ pc = "ready"
    /\ no_of_simulations = 2
    /\ no_of_linear_params = 3
    /\ augmentation_matrix[1][1] = RatOfInt(1)
    /\ augmentation_matrix[2][3] = RatOfInt(1)

\* a whole number in low .. high-1
IntegerIn(v, low, high) == v.d = 1 /\ low <= v.n /\ v.n < high

\* C3: after create_matrix and before any run, in both modes, every stored
\* row holds in its last three columns the values drawn for it: the width an
\* integer in [145, 722), the shift an integer in [-8, 8], the
\* signal-to-noise an integer in [15, 200); the zeroing of single mode leaves
\* none of them at the 0 it wrote.
C3_DistortionColumns ==
    BeforeFirstRun =>
        \A r \in 1 .. StoredRows :
            LET row == augmentation_matrix[r]
            IN  /\ IntegerIn(Fwhm(row), FWHM_LOW, FWHM_HIGH)
                /\ IntegerIn(ShiftX(row), SHIFT_LOW, SHIFT_HIGH)
                /\ IntegerIn(Snr(row), SNR_LOW, SNR_HIGH)
                /\ Fwhm(row) = RatOfInt(distortion_draws[r][1])
                /\ ShiftX(row) = RatOfInt(distortion_draws[r][2])
                /\ Snr(row) = RatOfInt(distortion_draws[r][3])

\* C3 witness: a complete single-mode matrix whose first row chose index 0 (so
\* that the zeroing covered every later column) and drew a non-zero shift,
\* and whose second row drew the shift 0.
C3_Witness ==
    /\ single
    /\ pc = "ready"
    /\ BeforeFirstRun
    /\ no_of_simulations = 2
    /\ no_of_linear_params = 2
    /\ augmentation_matrix[1][1] = RatOfInt(1)
    /\ ShiftX(augmentation_matrix[1]) = RatOfInt(SHIFT_LOW)
    /\ ShiftX(augmentation_matrix[2]) = RatOfInt(0)

\* what a flag of run does to its column (the last but `back`) of every row
ColumnEffect(flag, back) ==
    \A r \in 1 .. Len(augmentation_matrix) :
        LET c == Len(augmentation_matrix[r]) - back
        IN  augmentation_matrix'[r][c] =
               IF flag THEN augmentation_matrix[r][c] ELSE RatOfInt(0)

\* C4: a call of run sets the column of every distortion whose flag is False
\* to 0 in every row, and leaves every weight and every column whose flag is
\* True as it was; no random number is drawn.
C4_DisableIsOverwrite ==
    [][\A broaden, x_shift, noise \in BOOLEAN :
          RunStart(broaden, x_shift, noise) =>
              /\ Len(augmentation_matrix') = Len(augmentation_matrix)
              /\ \A r \in 1 .. Len(augmentation_matrix) :
                    Weights(augmentation_matrix'[r]) = Weights(augmentation_matrix[r])
              /\ ColumnEffect(broaden, 2)
              /\ ColumnEffect(x_shift, 1)
              /\ ColumnEffect(noise, 0)
              /\ distortion_draws' = distortion_draws]_vars

\* C4 witness: a run with noise = False and the other flags True is under
\* way on a combination-mode matrix of two rows that drew non-zero shifts.
C4_Witness ==
    /\ pc = "run"
    /\ ~single
    /\ no_of_simulations = 2
    /\ no_of_linear_params = 2
    /\ \A r \in 1 .. 2 :
          /\ Snr(augmentation_matrix[r]) = RatOfInt(0)
          /\ Fwhm(augmentation_matrix[r]) = RatOfInt(distortion_draws[r][1])
          /\ ShiftX(augmentation_matrix[r]) = RatOfInt(SHIFT_LOW)

\* the while loop is running and no row of no_of_linear_params weights that
\* sum to 1 has every weight at least 0.1
InUnsatisfiableLoop ==
    /\ pc = "while"
    /\ no_of_linear_params * WeightFloor.n > WeightFloor.d

\* C5: the retries of the while loop of create_matrix are capped: when the
\* floor cannot be met (no_of_linear_params * 0.1 > 1, more than 10
\* references), the loop is left after finitely many retries.
C5_RetryCapped == [](InUnsatisfiableLoop => <>(pc # "while"))

\* C6: with exactly one reference in combination mode the normalised weight
\* is exactly 1 for every draw, every stored row has the weight 1, and the
\* body of the while loop never runs.
C6_SoleWeightIsOne ==
    (~single /\ no_of_linear_params = 1) =>
        /\ ~resampled
        /\ pc = "while" => linear_params = <<RatOfInt(1)>>
        /\ \A r \in 1 .. StoredRows :
              Weights(augmentation_matrix[r]) = <<RatOfInt(1)>>

\* C6 witness: a combination-mode matrix of two rows with one reference is
\* complete.
C6_Witness ==
    /\ ~single
    /\ no_of_linear_params = 1
    /\ no_of_simulations = 2
    /\ pc = "ready"
    /\ augmentation_matrix[2][1] = RatOfInt(1)

\* a call of run has returned normally
RunCompleted == pc = "ready" /\ last_call = "run" /\ error = "none"

\* C7: during run, dict_list holds one record per row consumed, in row
\* order; after run completes, df and reduced_df hold exactly
\* no_of_simulations records, record r synthesised from row r.
C7_RecordsInRowOrder ==
    /\ pc = "run" =>
          /\ Len(dict_list) = i
          /\ \A r \in 1 .. i : dict_list[r] = SimulateRow(augmentation_matrix[r])
    /\ RunCompleted =>
          /\ Len(df) = no_of_simulations
          /\ Len(reduced_df) = no_of_simulations
          /\ \A r \in 1 .. no_of_simulations :
                /\ df[r] = SimulateRow(augmentation_matrix[r])
                /\ reduced_df[r].label = Weights(augmentation_matrix[r])
                /\ reduced_df[r].y = df[r].y

\* C7 witness: a run over two different rows has completed.
C7_Witness ==
    /\ RunCompleted
    /\ no_of_simulations = 2
    /\ no_of_linear_params = 2
    /\ augmentation_matrix[1] # augmentation_matrix[2]
    /\ Len(df) = 2

\* C8: when the synthesis of a row fails because the references do not share
\* a grid, run skips the row, goes on, returns normally with a dataset
\* smaller than requested and reports the number of records it created.
C8_SkipAndContinue ==
    (pc = "ready" /\ last_call = "run" /\ ~grids_match /\ no_of_simulations >= 1) =>
        /\ error = "none"
        /\ "df" \in attrs
        /\ Len(df) < no_of_simulations
        /\ summary = <<Len(df)>>

\* C9: a Creator given a count of zero or less, or no reference, is never
\* constructed, draws no random number and writes no row.
C9_InvalidConfigRejected ==
    (no_of_simulations <= 0 \/ no_of_linear_params = 0) =>
        /\ ~Constructed
        /\ ~drawn
        /\ distortion_draws = <<>>

\* C10: a to_file call with a filetype outside filetypes raises to its
\* caller and writes no artifact.
C10_UnsupportedFiletypeFails ==
    (last_call = "to_file"
        /\ message = "Saving was not successful. Choose a valid filetype!") =>
        /\ error # "none"
        /\ written = {}

\* C11: once constructed, the augmentation matrix is never written again:
\* whatever runs were made, with whatever flags, every row still holds the
\* distortion values create_matrix drew for it.
C11_MatrixReadOnlyAfterConstruction ==
    Constructed =>
        \A r \in 1 .. no_of_simulations :
            LET row == augmentation_matrix[r]
            IN  /\ Fwhm(row) = RatOfInt(distortion_draws[r][1])
                /\ ShiftX(row) = RatOfInt(distortion_draws[r][2])
                /\ Snr(row) = RatOfInt(distortion_draws[r][3])

\* a call of run has stopped before its last row was synthesised
RunStoppedEarly ==
    /\ pc = "ready"
    /\ last_call = "run"
    /\ error \in {"KeyboardInterrupt", "GridMismatchError"}

\* C12: after a run that stopped before all its rows were synthesised, no
\* dataset of the full requested size is visible: self.df is absent or has
\* fewer than no_of_simulations records.
C12_NoCompleteLookingDataset ==
    RunStoppedEarly =>
        \/ "df" \notin attrs
        \/ Len(df) < no_of_simulations

\* C14: after run, reduced_df has as many records as df, in the same order,
\* and each of its records has exactly the fields x, y and label, with the
\* values of the record of df at the same position.
C14_ReducedViewIsProjection ==
    RunCompleted =>
        /\ Len(reduced_df) = Len(df)
        /\ \A r \in 1 .. Len(df) :
              /\ DOMAIN reduced_df[r] = {"x", "y", "label"}
              /\ reduced_df[r].x = df[r].x
              /\ reduced_df[r].y = df[r].y
              /\ reduced_df[r].label = df[r].label

\* C14 witness: a run has completed with two records that differ in label
\* and in lineshape, and the full records carry shift_x, scale_y, noise and
\* FWHM.
C14_Witness ==
    /\ RunCompleted
    /\ Len(df) = 2
    /\ Len(reduced_df) = 2
    /\ df[1].label # df[2].label
    /\ reduced_df[1].y # reduced_df[2].y
    /\ DOMAIN df[1] = {"label", "shift_x", "scale_y", "noise", "FWHM", "x", "y"}

\* C15: the parameters a call of run passes to change_spectrum are valid in
\* every row: fwhm is not negative, and signal_to_noise is a whole number in
\* [15, 200) when noise is enabled and 0 when it is disabled.
C15_ValidParametersReachSynthesis ==
    [][\A broaden, x_shift, noise \in BOOLEAN :
          RunStart(broaden, x_shift, noise) =>
              \A r \in 1 .. Len(augmentation_matrix') :
                  LET row == augmentation_matrix'[r]
                  IN  /\ RatGeq(Fwhm(row), RatOfInt(0))
                      /\ IF noise
                         THEN IntegerIn(Snr(row), SNR_LOW, SNR_HIGH)
                         ELSE Snr(row) = RatOfInt(0)]_vars

\* a call of to_file with single == True in which the write of record rec
\* failed
SingleExportFailedAt(rec) ==
    /\ pc = "ready"
    /\ last_call = "to_file"
    /\ error = "OSError"
    /\ failed_file = << <<"name", rec>> >>

\* the records the error that left to_file names as not written
ReportedNotWritten ==
    { j \in 0 .. no_of_simulations - 1 : failed_file = << <<"name", j>> >> }

\* the records of which the call has written a file
RecordsWritten ==
    { j \in 0 .. no_of_simulations - 1 :
         \E a \in written : a.file[1] = <<"name", j>> }

\* C13: when a call of to_file with single == True fails writing the file of
\* record rec, the files of the records before rec are written and hold
\* their records, and every other record is written or is reported to the
\* caller as not written.
C13_NoRecordDroppedSilently ==
    \A rec \in 0 .. no_of_simulations - 1 :
        SingleExportFailedAt(rec) =>
            /\ \A j \in 0 .. rec - 1 : j \in RecordsWritten
            /\ \A j \in 0 .. no_of_simulations - 1 :
                  j # rec => (j \in RecordsWritten \/ j \in ReportedNotWritten)

\* the parser has returned, or raised, for a file of at least two samples
\* whose steps are not all equal
ParsedIrregular ==
    /\ parser.pc = "done"
    /\ Len(parser.x) >= 2
    /\ \E j \in 1 .. Len(parser.x) - 1 :
          parser.x[j + 1] - parser.x[j] # parser.x[2] - parser.x[1]

\* C16: for every increasing x array of at least two points whose steps are
\* not all equal, the parser returns an x grid whose step is the canonical
\* step everywhere and a y array of the same length.
C16_IrregularIsResampled ==
    ParsedIrregular =>
        /\ parser.error = "none"
        /\ parser.data_dict # <<>>
        /\ LET out == parser.data_dict[1]
           IN  /\ Len(out.y0) = Len(out.x)
               /\ \A j \in 1 .. Len(out.x) - 1 :
                     out.x[j + 1] - out.x[j] = parser.step

\* the returned grid has a point strictly between the samples a and a + 1
FilledBetween(a) ==
    \E j \in 1 .. Len(parser.new_x) :
        /\ parser.x[a] < parser.new_x[j]
        /\ parser.new_x[j] < parser.x[a + 1]

\* C17: when _interpolate has run, two consecutive samples have points
\* inserted between them exactly when their gap is larger than the step and
\* smaller than 10 times the step.
C17_FilledBelowTenSteps ==
    (parser.pc = "done" /\ parser.interpolated /\ parser.error = "none") =>
        \A a \in 1 .. Len(parser.x) - 1 :
            LET gap == parser.x[a + 1] - parser.x[a]
            IN  FilledBetween(a) <=> (gap > parser.step /\ gap < 10 * parser.step)

\* C18: parsing ends with the irregular-grid error exactly when the data
\* left after the header lines have fewer than two points.
C18_IrregularGridErrorOnly ==
    parser.pc = "done" =>
        (parser.error = "IrregularGridError"
            <=> Len(parser.file) - parser.n_headerlines < 2)

\* C19: a call of upload_to_DB deletes or inserts documents in a collection
\* that existed when the call started only if the user answered 'yes' to the
\* overwrite prompt while that collection was the target (so a new name that
\* exists is asked about again before it is used); a collection the call
\* does not write keeps its documents; and after 'no' to overwriting and
\* 'no' to a new collection nothing is deleted or inserted anywhere.
C19_OverwriteOnlyWhenConfirmed ==
    upload.pc \in {"ask", "ask2", "name", "done"} =>
        /\ \A n \in upload.touched :
              n \in DOMAIN upload.before => n \in upload.confirmed
        /\ \A n \in DOMAIN upload.before :
              n \notin upload.confirmed => upload.db[n] = upload.before[n]
        /\ (upload.pc = "done" /\ upload.answer = "no" /\ upload.answer2 = "no") =>
              /\ upload.touched = {}
              /\ upload.db = upload.before

\* C19 witness: the user refused to overwrite "a", asked for a new
\* collection and named "b", which exists too, was asked again and confirmed:
\* "b" holds the dataset and "a" is as it was.
C19_Witness ==
    /\ upload.pc = "done"
    /\ no_of_simulations = 2
    /\ upload.collections = {"a", "b"}
    /\ upload.collection_name = "b"
    /\ upload.confirmed = {"b"}
    /\ upload.touched = {"b"}
    /\ upload.answer2 = "yes"
    /\ upload.db["a"] = <<OldDocument>>
    /\ Len(upload.db["b"]) = 2

\* a call of upload_to_DB has written and returned
UploadWrote ==
    /\ upload.pc = "done"
    /\ upload.error = "none"
    /\ upload.touched # {}

\* C20: when upload_to_DB has written, the target collection holds exactly
\* the documents of the no_of_simulations records of self.df, in record
\* order, whatever it held before: also when it held these documents already.
C20_CollectionReplaced ==
    UploadWrote =>
        LET docs == CollectionDocs(upload.db, upload.collection_name)
        IN  /\ Len(docs) = no_of_simulations
            /\ \A r \in 1 .. no_of_simulations : docs[r] = Document(df[r])

\* C20 witness: the dataset of two records was uploaded to a collection that
\* already held it from an earlier upload, with overwrite confirmed.
C20_Witness ==
    /\ UploadWrote
    /\ no_of_simulations = 2
    /\ upload.collection_name \in upload.confirmed
    /\ upload.before[upload.collection_name] = <<Document(df[1]), Document(df[2])>>
    /\ upload.db[upload.collection_name] = upload.before[upload.collection_name]

\* C21: after an upload, check_db for the same collection returns one record
\* per record of the dataset, in the same order, with x, y and label equal
\* to the originals.
C21_UploadRoundTrip ==
    UploadWrote =>
        LET back == CheckDb(upload.db, upload.collection_name)
        IN  /\ Len(back) = Len(df)
            /\ \A r \in 1 .. Len(df) :
                  /\ back[r].x = df[r].x
                  /\ back[r].y = df[r].y
                  /\ back[r].label = df[r].label

\* C22: with reduced = True every uploaded document has the fields x, y and
\* label and no other; with reduced = False it has every field of the
\* record.
C22_ReducedUploadIsReduced ==
    UploadWrote =>
        \A r \in 1 .. Len(CollectionDocs(upload.db, upload.collection_name)) :
            DOMAIN CollectionDocs(upload.db, upload.collection_name)[r] =
                IF upload.reduced
                THEN {"x", "y", "label"}
                ELSE {"label", "shift_x", "scale_y", "noise", "FWHM", "x", "y"}

\* C25: when the target collection exists, upload_to_DB fails for no
\* sequence of answers, and its prompt loop ends only after 'yes', after
\* 'no' and 'no', or after 'no', 'yes' and a name that does not exist.
C25_EveryAnswerHandled ==
    (upload.pc = "done" /\ upload.answer # "None") =>
        /\ upload.error = "none"
        /\ \/ upload.answer = "yes"
           \/ upload.answer = "no" /\ upload.answer2 = "no"
           \/ /\ upload.answer = "no"
              /\ upload.answer2 = "yes"
              /\ upload.collection_name \notin upload.collections

\* the flag of run that belongs to the column the last but `back`
FlagOf(back, broaden, x_shift, noise) ==
    IF back = 2 THEN broaden ELSE IF back = 1 THEN x_shift ELSE noise

\* the column the last but `back` is 0 in every row
ColumnIsZero(m, back) ==
    \A r \in 1 .. Len(m) : m[r][Len(m[r]) - back] = RatOfInt(0)

\* the column the last but `back` holds in every row the value drawn for it
ColumnAsDrawn(m, back) ==
    \A r \in 1 .. Len(m) :
        m[r][Len(m[r]) - back] = RatOfInt(distortion_draws[r][3 - back])

\* C26: over any sequence of calls of run on a constructed Creator, a
\* distortion column changes only in a call whose flag for it is False,
\* which sets it to 0 in every row; it then stays 0 in every later call,
\* whatever its flag; a column never disabled holds the values drawn for it;
\* and the weight columns never change.
C26_DisablingIsPermanent ==
    /\ [](Constructed =>
            \A back \in 0 .. 2 :
                \/ ColumnAsDrawn(augmentation_matrix, back)
                \/ ColumnIsZero(augmentation_matrix, back))
    /\ [][Constructed =>
            /\ Len(augmentation_matrix') = Len(augmentation_matrix)
            /\ \A r \in 1 .. Len(augmentation_matrix) :
                  Weights(augmentation_matrix'[r]) = Weights(augmentation_matrix[r])
            /\ \A back \in 0 .. 2 :
                  /\ ColumnIsZero(augmentation_matrix, back) =>
                        ColumnIsZero(augmentation_matrix', back)
                  /\ \/ \A r \in 1 .. Len(augmentation_matrix) :
                           augmentation_matrix'[r][Len(augmentation_matrix[r]) - back]
                              = augmentation_matrix[r][Len(augmentation_matrix[r]) - back]
                     \/ /\ ColumnIsZero(augmentation_matrix', back)
                        /\ \E broaden, x_shift, noise \in BOOLEAN :
                              /\ RunStart(broaden, x_shift, noise)
                              /\ ~FlagOf(back, broaden, x_shift, noise)
            /\ \A broaden, x_shift, noise \in BOOLEAN :
                  RunStart(broaden, x_shift, noise) =>
                     \A back \in 0 .. 2 :
                        ~FlagOf(back, broaden, x_shift, noise) =>
                           ColumnIsZero(augmentation_matrix', back)]_vars

\* C26 witness: a second run is under way after a run that disabled the
\* noise: the dataset of the first run and the first record of this run
\* have the noise 0, the signal-to-noise column is 0 in both rows, and the
\* widths, never disabled, are as drawn and in both records.
C26_Witness ==
    /\ pc = "run"
    /\ no_of_simulations = 2
    /\ i = 1
    /\ "df" \in attrs
    /\ Len(df) = 2
    /\ df[1].noise = RatOfInt(0)
    /\ dict_list[1].noise = RatOfInt(0)
    /\ ColumnIsZero(augmentation_matrix, 0)
    /\ ColumnAsDrawn(augmentation_matrix, 2)
    /\ dict_list[1].FWHM = df[1].FWHM
    /\ df[1].FWHM # RatOfInt(0)

\* plot_random has returned normally
PlotReturned == plot.pc = "done" /\ plot.error = "none"

\* C23: plot_random(n), n >= 0, plots min(n, no_of_simulations) spectra whose
\* record indices are pairwise distinct and all in [0, no_of_simulations),
\* and under fair draws every call ends.
C23_PlotsDistinctAndEnds ==
    /\ [](PlotReturned =>
            /\ Len(plot.plotted) =
                  IF plot.requested < no_of_simulations
                  THEN plot.requested ELSE no_of_simulations
            /\ \A a, b \in 1 .. Len(plot.plotted) :
                  a # b => plot.plotted[a] # plot.plotted[b]
            /\ \A a \in 1 .. Len(plot.plotted) :
                  0 <= plot.plotted[a] /\ plot.plotted[a] < no_of_simulations)
    /\ (plot.pc \in {"for", "while"} ~> plot.pc = "done")

\* C23 witness: plot_random was called for more spectra than the two there
\* are, drew an index already used, drew again and plotted both.
C23_Witness ==
    /\ PlotReturned
    /\ no_of_simulations = 2
    /\ plot.requested = 3
    /\ plot.redrawn
    /\ Len(plot.plotted) = 2

\* C24: _get_best_round returns the index of a round with the least value of
\* the metric when low is True and of a round with the greatest value when
\* low is False.
C24_BestRoundFollowsLow ==
    (analysis.pc = "done" /\ analysis.error = "none") =>
        analysis.df[analysis.result + 1] =
            IF analysis.low THEN ColumnMin(analysis.df)
                            ELSE ColumnMax(analysis.df)

\* the test samples whose predicted class is not the true class, from 0
WrongPredictions ==
    { j - 1 : j \in { k \in 1 .. Len(classifier.pred_test) :
                        ArgMax(classifier.y_test[k])
                          # ArgMax(classifier.pred_test[k]) } }

\* C29: show_wrong_classification reports the number of test samples whose
\* predicted class differs from the true class and plots exactly those
\* samples, for every test set.
C29_ReportsEveryWrongPrediction ==
    classifier.pc = "shown" =>
        /\ classifier.error = "none"
        /\ classifier.no_of_wrong_pred = Cardinality(WrongPredictions)
        /\ Range(classifier.plotted) = WrongPredictions

\* the data are loaded and split
Loaded == classifier.pc \in {"loaded", "predicted", "shown"}

\* C30: the three parts are contiguous, disjoint, in the original order and
\* cover all N samples, X and y are cut at the same positions, and the sizes
\* are int((1-train_val_split) * int((1-train_test_split) * N)) for train,
\* the rest of the first int((1-train_test_split) * N) for validation and
\* the remainder for test.
C30_SplitIsAPartition ==
    Loaded =>
        LET N == Len(classifier.X)
            first == ((4 - classifier.train_test_split) * N) \div 4
            train == ((4 - classifier.train_val_split) * first) \div 4
        IN  /\ classifier.X_train \o classifier.X_val \o classifier.X_test
                 = classifier.X
            /\ classifier.y_train \o classifier.y_val \o classifier.y_test
                 = classifier.y
            /\ Range(classifier.X_train) \cap Range(classifier.X_val) = {}
            /\ Range(classifier.X_train) \cap Range(classifier.X_test) = {}
            /\ Range(classifier.X_val) \cap Range(classifier.X_test) = {}
            /\ Len(classifier.y_train) = Len(classifier.X_train)
            /\ Len(classifier.y_val) = Len(classifier.X_val)
            /\ Len(classifier.y_test) = Len(classifier.X_test)
            /\ Len(classifier.X_train) = train
            /\ Len(classifier.X_val) = first - train
            /\ Len(classifier.X_test) = N - first

\* C30 witness: three samples split with 0.25 and 0.5 into one training, one
\* validation and one test sample.
C30_Witness ==
    /\ Loaded
    /\ Len(classifier.X) = 3
    /\ classifier.train_test_split = 1
    /\ classifier.train_val_split = 2
    /\ classifier.X_train = <<1>>
    /\ classifier.X_val = <<2>>
    /\ classifier.X_test = <<3>>
    /\ classifier.y_test = <<classifier.y[3]>>

\* parse_file returns in this step
ParseReturns ==
    parser.pc # "done" /\ parser'.pc = "done" /\ parser'.error = "none"

\* the spectrum parse_file has made of the file: its two columns after the
\* header lines, or the resampled ones
ParsedSpectrum ==
    IF parser'.interpolated
    THEN [x |-> parser'.new_x, y0 |-> parser'.new_y]
    ELSE LET data == SubSeq(parser.file, parser.n_headerlines + 1,
                            Len(parser.file))
         IN  [x |-> [j \in 1 .. Len(data) |-> data[j][1]],
              y0 |-> [j \in 1 .. Len(data) |-> RatOfInt(data[j][2])]]

\* C27: on one TextParser data_dict starts empty and grows by exactly one
\* spectrum per successful parse_file: the earlier entries stay as they
\* were and the last one is the spectrum of the file just parsed; nothing
\* else changes the list.
C27_DataDictGrowsByOne ==
    /\ []((parser.pc = "new" /\ parser.calls = 1) => parser.data_dict = <<>>)
    /\ [][IF ParseReturns
          THEN /\ Len(parser'.data_dict) = Len(parser.data_dict) + 1
               /\ SubSeq(parser'.data_dict, 1, Len(parser.data_dict))
                    = parser.data_dict
               /\ parser'.data_dict[Len(parser'.data_dict)] = ParsedSpectrum
          ELSE parser'.data_dict = parser.data_dict]_vars

\* C27 witness: the third call on an instance has returned three spectra,
\* a resampled one after two that are not.
C27_Witness ==
    /\ parser.pc = "done"
    /\ parser.error = "none"
    /\ parser.calls = 3
    /\ Len(parser.data_dict) = 3
    /\ parser.interpolated
    /\ parser.data_dict[1] # parser.data_dict[3]
    /\ parser.data_dict[2] # parser.data_dict[3]

\* _interpolate has returned for an input whose gaps are multiples of the
\* step
InterpolatedStepMultiples ==
    /\ parser.pc = "done"
    /\ parser.interpolated
    /\ parser.error = "none"
    /\ parser.step > 0
    /\ \A a \in 1 .. Len(parser.x) - 1 :
          (parser.x[a + 1] - parser.x[a]) % parser.step = 0

\* where the x of the original sample a stands first in the output
OriginalAt(a) ==
    Min({ j \in 1 .. Len(parser.new_x) : parser.new_x[j] = parser.x[a] })

\* the output point j is on the straight line between the samples a, a + 1
OnStraightLine(a, j) ==
    LET ya == parser.y[a]
        yb == parser.y[a + 1]
        yj == parser.new_y[j]
    IN  yj.n * (parser.x[a + 1] - parser.x[a]) * ya.d * yb.d =
          yj.d * (ya.n * yb.d * (parser.x[a + 1] - parser.new_x[j])
                  + yb.n * ya.d * (parser.new_x[j] - parser.x[a]))

\* C28: for an increasing input with step-multiple gaps every original
\* sample is in the output, in the original order; the output x and y have
\* one length, at least the input's; every inserted point lies strictly
\* between its two neighbouring originals in x and on the straight line
\* between them in y, and none has the x of the next original.
C28_InterpolationKeepsSamples ==
    InterpolatedStepMultiples =>
        /\ Len(parser.new_x) = Len(parser.new_y)
        /\ Len(parser.new_x) >= Len(parser.x)
        /\ \A a \in 1 .. Len(parser.x) :
              /\ \E j \in 1 .. Len(parser.new_x) :
                    parser.new_x[j] = parser.x[a]
              /\ parser.new_y[OriginalAt(a)] = parser.y[a]
        /\ \A a \in 1 .. Len(parser.x) - 1 : OriginalAt(a) < OriginalAt(a + 1)
        /\ \A j \in 1 .. Len(parser.new_x) :
              (\A a \in 1 .. Len(parser.x) : OriginalAt(a) # j) =>
                  \E a \in 1 .. Len(parser.x) - 1 :
                      /\ OriginalAt(a) < j
                      /\ j < OriginalAt(a + 1)
                      /\ parser.x[a] < parser.new_x[j]
                      /\ parser.new_x[j] < parser.x[a + 1]
                      /\ parser.new_x[j] # parser.x[a + 1]
                      /\ OnStraightLine(a, j)

====
